---- MODULE Spec2Model ----
(***************************************************************************)
(* MultiverseMarket (seeded, round-based LMSR market): a state machine of  *)
(* the contract's storage, with one action per external function.          *)
(*                                                                         *)
(* Scaling.  The contract works in 1e18 fixed point on 256-bit words.      *)
(* The model keeps every formula of the contract and scales the numbers:   *)
(* the fixed-point unit ONE is 1000 instead of 1e18 and a word has 30 bits *)
(* instead of 256 (UINT_MAX = 2^30 - 1), so that every value fits the      *)
(* model checker's integers.  One time unit stands for one hour-sized      *)
(* duration.  A transaction that reverts leaves the storage untouched, so  *)
(* a reverting call is no step of the machine; for every external function *)
(* an operator <Function>Error gives the error the call ends with ("ok"    *)
(* when it succeeds), following the order of the checks in the code.       *)
(***************************************************************************)
EXTENDS Integers, FiniteSets, Sequences, TLC

\* ----------------------------------------------------------------- bounds
MaxRounds == 2
MaxTime == 3
MaxBuys == 2
MaxAdmin == 1
MaxDuration == 1
MaxUpdates == 2

\* ------------------------------------------------------ program constants
ONE == 1000
LN2 == 693
MAX_ENTROPY == 693
MIN_FEE == 5
MAX_FEE == 50
UINT_MAX == 1073741823
DefaultTradingDuration == 1
DefaultResolutionDelay == 2
INT_MAX == (UINT_MAX - 1) \div 2
INT_MIN == -INT_MAX - 1
MAX_EXPONENT == 20 * ONE
DefaultSeedAmount == ONE \div 2
b == ONE
\* RegimeOracle's rounding tolerance 1e15, on the scale of ONE
ProbTolerance == ONE \div 1000

\* ------------------------------------------------------------ input sets
Accounts == {"op", "alice", "bob"}
Deployer == "op"
RoundIds == 1..MaxRounds
\* The oracle is another contract: what a call reads from it is an input of the
\* call.  Realised vol 0 is what an oracle that was never updated returns.
VolReadings == {0, 1, 2}
EntropyReadings == {MAX_ENTROPY \div 2}
DurationChoices == 0..MaxDuration
SeedChoices == {0, DefaultSeedAmount}
DepositChoices == {2 * ONE}
\* deposits are explored while the reserve stays within this cap
ReserveCap == 2 * ONE
\* a withdrawal that leaves less in a funded reserve than seeding a round costs
WithdrawChoices == {ONE + ONE \div 2}
BuyAmounts == {ONE}
\* msg.value of a buy: nothing, or more than any quoted total (the excess is refunded)
PaymentChoices == {0, 3 * ONE}
\* bytes32 values: the zero word, the hash RegimeOracle is deployed with, another
ZeroHash == "0x00"
DeployedModelHash == "0xaa"
ModelHashes == {DeployedModelHash, "0xbb"}
\* probabilities pushed to RegimeOracle: sums that meet the tolerance, pass it
\* by one unit, and overflow the word
ProbChoices == {0, ONE \div 2, ONE \div 2 + ProbTolerance,
                ONE \div 2 + ProbTolerance + 1, UINT_MAX}

VARIABLES
    now,              \* block.timestamp
    operator,
    currentRoundId,
    rounds,           \* mapping(uint256 => Round)
    highVolBalance,   \* [round][account]
    lowVolBalance,
    tradingDuration,
    resolutionDelay,
    seedAmount,
    seedReserve,
    balance,          \* address(this).balance
    paidOut,          \* history: per round, the sum of the payouts of claimPayout
    seedRecorded,     \* history: per round, seedCollateral as recorded by _seedRound
    claimCount,       \* history: per round, the number of successful claimPayout calls
    buyCount,         \* history: the number of successful buyOutcome calls
    adminCount,       \* history: the number of successful administrative calls
                      \* other than deposits
    oracleOperator,      \* RegimeOracle: the key that may push updates
    registeredModelHash, \* RegimeOracle
    latestUpdate,        \* RegimeOracle: the RegimeUpdate struct
    updateCount          \* RegimeOracle

vars == <<now, operator, currentRoundId, rounds, highVolBalance,
          lowVolBalance, tradingDuration, resolutionDelay, seedAmount, seedReserve,
          balance, paidOut, seedRecorded, claimCount, buyCount, adminCount,
          oracleOperator, registeredModelHash, latestUpdate, updateCount>>

\* the storage of RegimeOracle, which no call of the market writes
oracleVars == <<oracleOperator, registeredModelHash, latestUpdate, updateCount>>

\* ------------------------------------------------------------ arithmetic
Abs(x) == IF x < 0 THEN -x ELSE x

Sign(x) == IF x < 0 THEN -1 ELSE 1

Min(x, y) == IF x < y THEN x ELSE y

\* Solidity's signed division truncates toward zero
TDiv(a, d) == Sign(a) * Sign(d) * (Abs(a) \div Abs(d))

\* (a * x) / d with Solidity's truncation, computed without forming a * x
\* (|a| = q*d + r gives |a|*|x| / d = q*|x| + (r*|x|) / d exactly)
TMulDiv(a, x, d) ==
    Sign(a) * Sign(x) *
        ((Abs(a) \div d) * Abs(x) + ((Abs(a) % d) * Abs(x)) \div d)

\* int256(amount): the two's-complement reinterpretation of a uint256
ToInt(u) == IF u > INT_MAX THEN u - UINT_MAX - 1 ELSE u

InInt(x) == INT_MIN <= x /\ x <= INT_MAX

\* checked a + c on uint256 (c a uint256): TRUE when it does not overflow
AddFits(a, c) == a <= UINT_MAX - c

\* checked a * c on uint256: TRUE when it does not overflow
MulFits(a, c) == c = 0 \/ a <= UINT_MAX \div c

\* checked q * 1e18 on int256
ScaleFits(q) == Abs(q) <= INT_MAX \div ONE

\* ------------------------------------------- LMSR math (fixed point, ONE)
\* the next Taylor term of _expScaled: term = (term * x) / (k * ONE)
ExpTerm(term, x, k) == TMulDiv(term, x, k * ONE)

\* the five steps `term = (term * x) / (k * ONE); result += term`, k = 2..6
RECURSIVE ExpSeries(_, _, _, _)
ExpSeries(x, term, k, result) ==
    IF k > 6 THEN result
    ELSE LET next == ExpTerm(term, x, k)
         IN  ExpSeries(x, next, k + 1, result + next)

\* variant: _expScaled that returns 0 where the code returns 1
ExpScaledUnguarded(q) ==
    LET exponent == TDiv(q * ONE, b)
        x == IF exponent > MAX_EXPONENT THEN MAX_EXPONENT ELSE exponent
        result == ExpSeries(x, x, 2, ONE + x)
    IN  IF exponent < -MAX_EXPONENT THEN 0
        ELSE IF result > 0 THEN result ELSE 0

\* _expScaled(q) of a market deployed with the liquidity parameter `liquidity`
ExpScaledFor(q, liquidity) ==
    LET exponent == TDiv(q * ONE, liquidity)
        x == IF exponent > MAX_EXPONENT THEN MAX_EXPONENT ELSE exponent
        result == ExpSeries(x, x, 2, ONE + x)
    IN  IF exponent < -MAX_EXPONENT THEN 1
        ELSE IF result > 0 THEN result ELSE 1

\* _expScaled(q): exp(q / b) in fixed point; q * ONE must fit (ScaleFits)
ExpScaled(q) ==
    LET exponent == TDiv(q * ONE, b)
        x == IF exponent > MAX_EXPONENT THEN MAX_EXPONENT ELSE exponent
        \* result = ONE; term = x; result += term; then the five steps
        result == ExpSeries(x, x, 2, ONE + x)
    IN  IF exponent < -MAX_EXPONENT THEN 1
        ELSE IF result > 0 THEN result ELSE 1

\* the halving loop of _ln: <<x after the loop, ln(2) accumulated>>
RECURSIVE LnHalve(_, _)
LnHalve(x, acc) ==
    IF x >= 2 * ONE THEN LnHalve(x \div 2, acc + LN2) ELSE <<x, acc>>

\* _ln(x)
Ln(x) ==
    IF x <= ONE THEN 0
    ELSE LET h == LnHalve(x, 0)
             y == h[1] - ONE
             y2 == (y * y) \div ONE
             y3 == (y2 * y) \div ONE
             y4 == (y3 * y) \div ONE
         IN  h[2] + y - y2 \div 2 + y3 \div 3 - y4 \div 4

\* _cost(qH, qL) = b * ln(exp(qH/b) + exp(qL/b))
Cost(qH, qL) == (b * Ln(ExpScaled(qH) + ExpScaled(qL))) \div ONE

\* costAfter > costBefore ? costAfter - costBefore : 0
CostDelta(before, after) == IF after > before THEN after - before ELSE 0

\* variant: dynamicFee without the cap at MAX_ENTROPY
DynamicFeeUncapped(e) ==
    MIN_FEE + ((MAX_FEE - MIN_FEE) * e) \div MAX_ENTROPY

\* dynamicFee() with the oracle's entropy reading e
DynamicFee(e) ==
    IF e >= MAX_ENTROPY THEN MAX_FEE
    ELSE MIN_FEE + ((MAX_FEE - MIN_FEE) * e) \div MAX_ENTROPY

\* <<(a * x) \div d, (a * x) % d>> for 0 <= a < d, by doubling: the product
\* a * x fits the contract's word but not the integers of the model checker
RECURSIVE MulDivMod(_, _, _)
MulDivMod(a, x, d) ==
    IF x = 0 THEN <<0, 0>>
    ELSE LET half == MulDivMod(a, x \div 2, d)
             rest == 2 * half[2] + (IF x % 2 = 1 THEN a ELSE 0)
         IN  <<2 * half[1] + rest \div d, rest % d>>

\* (a * x) / d on uint256
MulDiv(a, x, d) == (a \div d) * x + MulDivMod(a % d, x, d)[1]

\* variant: priceHighVol that rounds up
PriceHighVolRoundedUp(qH, qL) ==
    MulDiv(ExpScaled(qH), ONE, ExpScaled(qH) + ExpScaled(qL)) + 1

\* priceHighVol / priceLowVol on the quantities of a round
PriceHighVol(qH, qL) ==
    MulDiv(ExpScaled(qH), ONE, ExpScaled(qH) + ExpScaled(qL))

PriceLowVol(qH, qL) ==
    MulDiv(ExpScaled(qL), ONE, ExpScaled(qH) + ExpScaled(qL))

\* ----------------------------------------------------------------- state
\* the value of a storage slot of `rounds` that was never written
ZeroRound ==
    [snapshotVol |-> 0, tradingEnd |-> 0, resolutionTime |-> 0,
     totalCollateral |-> 0, totalHighTokens |-> 0, totalLowTokens |-> 0,
     qHigh |-> 0, qLow |-> 0, resolved |-> FALSE, highVolWon |-> FALSE,
     resolvedVol |-> 0, seedCollateral |-> 0, seedHighTokens |-> 0,
     seedLowTokens |-> 0]

\* the Round literal openNewRound and startNewRound store
NewRound(snap) ==
    [ZeroRound EXCEPT !.snapshotVol = snap,
                      !.tradingEnd = now + tradingDuration,
                      !.resolutionTime = now + resolutionDelay]

\* RegimeOracle's latestUpdate before the first update: the zero struct
ZeroUpdate ==
    [pHighVol |-> 0, pLowVol |-> 0, entropy |-> 0, timestamp |-> 0,
     modelHash |-> ZeroHash]

\* the state after the constructors of the market and of RegimeOracle; what the
\* market reads from its oracle is an input of the call that reads it
Init ==
    /\ now = 0
    /\ operator = Deployer
    /\ currentRoundId = 0
    /\ rounds = [r \in RoundIds |-> ZeroRound]
    /\ highVolBalance = [r \in RoundIds |-> [a \in Accounts |-> 0]]
    /\ lowVolBalance = [r \in RoundIds |-> [a \in Accounts |-> 0]]
    /\ tradingDuration = DefaultTradingDuration
    /\ resolutionDelay = DefaultResolutionDelay
    /\ seedAmount = DefaultSeedAmount
    /\ seedReserve = 0
    /\ balance = 0
    /\ paidOut = [r \in RoundIds |-> 0]
    /\ seedRecorded = [r \in RoundIds |-> 0]
    /\ claimCount = [r \in RoundIds |-> 0]
    /\ buyCount = 0
    /\ adminCount = 0
    /\ oracleOperator = Deployer
    /\ registeredModelHash = DeployedModelHash
    /\ latestUpdate = ZeroUpdate
    /\ updateCount = 0

\* ------------------------------------------------------------- _seedRound
\* variant: _seedRound that skips seeding without taking the quantities back
SeedRoundSkipKeepsQuantities(rd, reserve) ==
    IF seedAmount = 0 THEN <<rd, reserve>>
    ELSE
      LET costBefore == Cost(rd.qHigh, rd.qLow)
          seedInt == ToInt(seedAmount)
          qH == rd.qHigh + seedInt
          costAfterHigh == Cost(qH, rd.qLow)
          highCost == CostDelta(costBefore, costAfterHigh)
          qL == rd.qLow + seedInt
          costAfterBoth == Cost(qH, qL)
          lowCost == CostDelta(costAfterHigh, costAfterBoth)
          totalSeedCost == highCost + lowCost
      IN  IF totalSeedCost > reserve
          THEN <<[rd EXCEPT !.qHigh = qH, !.qLow = qL], reserve>>
          ELSE <<[rd EXCEPT !.qHigh = qH, !.qLow = qL,
                            !.totalHighTokens = @ + seedAmount,
                            !.totalLowTokens = @ + seedAmount,
                            !.totalCollateral = @ + totalSeedCost,
                            !.seedHighTokens = seedAmount,
                            !.seedLowTokens = seedAmount,
                            !.seedCollateral = totalSeedCost],
                 reserve - totalSeedCost>>

\* variant: _seedRound that moves only the HIGH quantity
SeedRoundHighOnly(rd, reserve) ==
    IF seedAmount = 0 THEN <<rd, reserve>>
    ELSE
      LET costBefore == Cost(rd.qHigh, rd.qLow)
          seedInt == ToInt(seedAmount)
          qH == rd.qHigh + seedInt
          costAfterHigh == Cost(qH, rd.qLow)
          highCost == CostDelta(costBefore, costAfterHigh)
          qL == rd.qLow + seedInt
          costAfterBoth == Cost(qH, qL)
          lowCost == CostDelta(costAfterHigh, costAfterBoth)
          totalSeedCost == highCost + lowCost
      IN  IF totalSeedCost > reserve THEN <<rd, reserve>>
          ELSE <<[rd EXCEPT !.qHigh = qH,
                            !.totalHighTokens = @ + seedAmount,
                            !.totalLowTokens = @ + seedAmount,
                            !.totalCollateral = @ + totalSeedCost,
                            !.seedHighTokens = seedAmount,
                            !.seedLowTokens = seedAmount,
                            !.seedCollateral = totalSeedCost],
                 reserve - totalSeedCost>>

\* variant: _seedRound that records the seed without adding it to the totals
SeedRoundNotTotalled(rd, reserve) ==
    IF seedAmount = 0 THEN <<rd, reserve>>
    ELSE
      LET costBefore == Cost(rd.qHigh, rd.qLow)
          seedInt == ToInt(seedAmount)
          qH == rd.qHigh + seedInt
          costAfterHigh == Cost(qH, rd.qLow)
          highCost == CostDelta(costBefore, costAfterHigh)
          qL == rd.qLow + seedInt
          costAfterBoth == Cost(qH, qL)
          lowCost == CostDelta(costAfterHigh, costAfterBoth)
          totalSeedCost == highCost + lowCost
      IN  IF totalSeedCost > reserve THEN <<rd, reserve>>
          ELSE <<[rd EXCEPT !.qHigh = qH, !.qLow = qL,
                            !.seedHighTokens = seedAmount,
                            !.seedLowTokens = seedAmount,
                            !.seedCollateral = totalSeedCost],
                 reserve - totalSeedCost>>

\* _seedRound on the freshly stored round `rd`, with the reserve `reserve`:
\* <<the round afterwards, the reserve afterwards>>
SeedRound(rd, reserve) ==
    IF seedAmount = 0 THEN <<rd, reserve>>
    ELSE
      LET costBefore == Cost(rd.qHigh, rd.qLow)
          seedInt == ToInt(seedAmount)
          qH == rd.qHigh + seedInt
          costAfterHigh == Cost(qH, rd.qLow)
          highCost == CostDelta(costBefore, costAfterHigh)
          qL == rd.qLow + seedInt
          costAfterBoth == Cost(qH, qL)
          lowCost == CostDelta(costAfterHigh, costAfterBoth)
          totalSeedCost == highCost + lowCost
      IN  IF totalSeedCost > reserve THEN <<rd, reserve>>
          ELSE <<[rd EXCEPT !.qHigh = qH, !.qLow = qL,
                            !.totalHighTokens = @ + seedAmount,
                            !.totalLowTokens = @ + seedAmount,
                            !.totalCollateral = @ + totalSeedCost,
                            !.seedHighTokens = seedAmount,
                            !.seedLowTokens = seedAmount,
                            !.seedCollateral = totalSeedCost],
                 reserve - totalSeedCost>>

\* ------------------------------------------------- opening a round
\* variant: the modifier compares the caller with the deployer
OnlyOperatorErrorDeployer(caller) ==
    IF caller # Deployer THEN "Unauthorized" ELSE "ok"

\* the onlyOperator modifier
OnlyOperatorError(caller) == IF caller # operator THEN "Unauthorized" ELSE "ok"

\* variant: openNewRound with startNewRound's check of the current round
OpenNewRoundErrorCurrentResolved(caller) ==
    IF OnlyOperatorError(caller) # "ok" THEN "Unauthorized"
    ELSE IF currentRoundId > 0 /\ ~rounds[currentRoundId].resolved
    THEN "CurrentRoundNotResolved"
    ELSE "ok"

\* openNewRound's checks: the modifier alone
OpenNewRoundError(caller) == OnlyOperatorError(caller)


\* variant: startNewRound without its check of the current round
StartNewRoundErrorUnchecked(caller) == "ok"

\* variant: startNewRound restricted to the operator
StartNewRoundErrorOperatorOnly(caller) ==
    IF caller # operator THEN "Unauthorized"
    ELSE IF currentRoundId > 0 /\ ~rounds[currentRoundId].resolved
    THEN "CurrentRoundNotResolved"
    ELSE "ok"

\* startNewRound's checks
StartNewRoundError(caller) ==
    IF currentRoundId > 0 /\ ~rounds[currentRoundId].resolved
    THEN "CurrentRoundNotResolved"
    ELSE "ok"

\* variant: the body stores the new round without advancing the counter past 1
OpenBodyReusingId(snap) ==
    LET roundId == IF currentRoundId = 0 THEN 1 ELSE currentRoundId
        seeded == SeedRound(NewRound(snap), seedReserve)
    IN  /\ currentRoundId' = roundId
        /\ rounds' = [rounds EXCEPT ![roundId] = seeded[1]]
        /\ seedReserve' = seeded[2]
        /\ seedRecorded' = [seedRecorded EXCEPT ![roundId] = seeded[1].seedCollateral]
        /\ UNCHANGED <<oracleVars, now, operator, highVolBalance, lowVolBalance,
                       tradingDuration, resolutionDelay, seedAmount, balance,
                       paidOut, claimCount, buyCount, adminCount>>

\* the body openNewRound and startNewRound share: count, snapshot, store, seed;
\* snap is what oracle.getRealisedVol() returns
OpenBody(snap) ==
    LET roundId == currentRoundId + 1
        seeded == SeedRound(NewRound(snap), seedReserve)
    IN  /\ currentRoundId' = roundId
        /\ rounds' = [rounds EXCEPT ![roundId] = seeded[1]]
        /\ seedReserve' = seeded[2]
        /\ seedRecorded' = [seedRecorded EXCEPT ![roundId] = seeded[1].seedCollateral]
        /\ UNCHANGED <<oracleVars, now, operator, highVolBalance, lowVolBalance,
                       tradingDuration, resolutionDelay, seedAmount, balance,
                       paidOut, claimCount, buyCount, adminCount>>

OpenNewRound(caller, snap) ==
    /\ currentRoundId < MaxRounds
    /\ OpenNewRoundError(caller) = "ok"
    /\ OpenBody(snap)

StartNewRound(caller, snap) ==
    /\ currentRoundId < MaxRounds
    /\ StartNewRoundError(caller) = "ok"
    /\ OpenBody(snap)

\* -------------------------------------------------------------- buyOutcome
\* the quantities after `round.qHigh += int256(amount)` / `round.qLow += ...`
BuyQuantities(rd, isHighVol, amount) ==
    IF isHighVol THEN <<rd.qHigh + ToInt(amount), rd.qLow>>
    ELSE <<rd.qHigh, rd.qLow + ToInt(amount)>>

\* rawCost, fee and totalCost of a buy on the round record rd, when
\* oracle.getEntropy() returns e
BuyQuote(rd, isHighVol, amount, e) ==
    LET q == BuyQuantities(rd, isHighVol, amount)
        costBefore == Cost(rd.qHigh, rd.qLow)
        costAfter == Cost(q[1], q[2])
        rawCost == CostDelta(costBefore, costAfter)
        fee == (rawCost * DynamicFee(e)) \div ONE
    IN  [rawCost |-> rawCost, fee |-> fee, totalCost |-> rawCost + fee]

\* variant: buyOutcome without its check of msg.value
BuyErrorNoPaymentCheck(roundId, caller, isHighVol, amount, value, e) ==
    LET rd == rounds[roundId]
        q == BuyQuantities(rd, isHighVol, amount)
        held == IF isHighVol THEN highVolBalance[roundId][caller]
                ELSE lowVolBalance[roundId][caller]
        total == IF isHighVol THEN rd.totalHighTokens ELSE rd.totalLowTokens
    IN  IF rd.snapshotVol = 0 THEN "InvalidRound"
        ELSE IF rd.resolved THEN "RoundAlreadyResolved"
        ELSE IF now > rd.tradingEnd THEN "TradingClosed"
        ELSE IF ~(ScaleFits(rd.qHigh) /\ ScaleFits(rd.qLow)) THEN "Panic"
        ELSE IF ~(InInt(q[1]) /\ InInt(q[2])) THEN "Panic"
        ELSE IF ~(ScaleFits(q[1]) /\ ScaleFits(q[2])) THEN "Panic"
        ELSE IF ~(AddFits(held, amount) /\ AddFits(total, amount)) THEN "Panic"
        ELSE "ok"

\* variant: buyOutcome without its check of the resolved flag
BuyErrorNoResolvedCheck(roundId, caller, isHighVol, amount, value, e) ==
    LET rd == rounds[roundId]
        q == BuyQuantities(rd, isHighVol, amount)
        held == IF isHighVol THEN highVolBalance[roundId][caller]
                ELSE lowVolBalance[roundId][caller]
        total == IF isHighVol THEN rd.totalHighTokens ELSE rd.totalLowTokens
    IN  IF rd.snapshotVol = 0 THEN "InvalidRound"
        ELSE IF now > rd.tradingEnd THEN "TradingClosed"
        ELSE IF ~(ScaleFits(rd.qHigh) /\ ScaleFits(rd.qLow)) THEN "Panic"
        ELSE IF ~(InInt(q[1]) /\ InInt(q[2])) THEN "Panic"
        ELSE IF ~(ScaleFits(q[1]) /\ ScaleFits(q[2])) THEN "Panic"
        ELSE IF value < BuyQuote(rd, isHighVol, amount, e).totalCost
             THEN "InsufficientPayment"
        ELSE IF ~(AddFits(held, amount) /\ AddFits(total, amount)) THEN "Panic"
        ELSE "ok"

\* the error buyOutcome(roundId, isHighVol, amount) with msg.value = value ends
\* with, when oracle.getEntropy() returns e; "Panic" is the revert of checked
\* arithmetic
BuyError(roundId, caller, isHighVol, amount, value, e) ==
    LET rd == rounds[roundId]
        q == BuyQuantities(rd, isHighVol, amount)
        held == IF isHighVol THEN highVolBalance[roundId][caller]
                ELSE lowVolBalance[roundId][caller]
        total == IF isHighVol THEN rd.totalHighTokens ELSE rd.totalLowTokens
    IN  IF rd.snapshotVol = 0 THEN "InvalidRound"
        ELSE IF rd.resolved THEN "RoundAlreadyResolved"
        ELSE IF now > rd.tradingEnd THEN "TradingClosed"
        ELSE IF ~(ScaleFits(rd.qHigh) /\ ScaleFits(rd.qLow)) THEN "Panic"
        ELSE IF ~(InInt(q[1]) /\ InInt(q[2])) THEN "Panic"
        ELSE IF ~(ScaleFits(q[1]) /\ ScaleFits(q[2])) THEN "Panic"
        ELSE IF value < BuyQuote(rd, isHighVol, amount, e).totalCost
             THEN "InsufficientPayment"
        ELSE IF ~(AddFits(held, amount) /\ AddFits(total, amount)) THEN "Panic"
        ELSE "ok"

\* variant: buyOutcome that credits the buyer but not the round's token totals
BuyOutcomeTotalsNotCredited(roundId, caller, isHighVol, amount, value, e) ==
    LET rd == rounds[roundId]
        q == BuyQuantities(rd, isHighVol, amount)
        quote == BuyQuote(rd, isHighVol, amount, e)
    IN  /\ BuyError(roundId, caller, isHighVol, amount, value, e) = "ok"
        /\ rounds' = [rounds EXCEPT ![roundId] =
              [rd EXCEPT !.qHigh = q[1], !.qLow = q[2],
                         !.totalCollateral = @ + quote.totalCost]]
        /\ highVolBalance' = IF isHighVol
              THEN [highVolBalance EXCEPT ![roundId][caller] = @ + amount]
              ELSE highVolBalance
        /\ lowVolBalance' = IF isHighVol
              THEN lowVolBalance
              ELSE [lowVolBalance EXCEPT ![roundId][caller] = @ + amount]
        /\ balance' = balance + quote.totalCost
        /\ buyCount' = buyCount + 1
        /\ UNCHANGED <<oracleVars, now, operator, currentRoundId, tradingDuration,
                       resolutionDelay, seedAmount, seedReserve, paidOut,
                       seedRecorded, claimCount, adminCount>>

BuyOutcome(roundId, caller, isHighVol, amount, value, e) ==
    LET rd == rounds[roundId]
        q == BuyQuantities(rd, isHighVol, amount)
        quote == BuyQuote(rd, isHighVol, amount, e)
    IN  /\ BuyError(roundId, caller, isHighVol, amount, value, e) = "ok"
        /\ rounds' = [rounds EXCEPT ![roundId] =
              [rd EXCEPT !.qHigh = q[1], !.qLow = q[2],
                         !.totalHighTokens = IF isHighVol THEN @ + amount ELSE @,
                         !.totalLowTokens = IF isHighVol THEN @ ELSE @ + amount,
                         !.totalCollateral = @ + quote.totalCost]]
        /\ highVolBalance' = IF isHighVol
              THEN [highVolBalance EXCEPT ![roundId][caller] = @ + amount]
              ELSE highVolBalance
        /\ lowVolBalance' = IF isHighVol
              THEN lowVolBalance
              ELSE [lowVolBalance EXCEPT ![roundId][caller] = @ + amount]
        \* msg.value comes in, the excess over totalCost is refunded
        /\ balance' = balance + quote.totalCost
        /\ buyCount' = buyCount + 1
        /\ UNCHANGED <<oracleVars, now, operator, currentRoundId, tradingDuration,
                       resolutionDelay, seedAmount, seedReserve, paidOut,
                       seedRecorded, claimCount, adminCount>>

\* ------------------------------------------------------------ resolveRound
\* variant: resolveRound without its check of the resolved flag
ResolveErrorNoResolvedCheck(roundId) ==
    LET rd == rounds[roundId]
    IN  IF rd.snapshotVol = 0 THEN "InvalidRound"
        ELSE IF now < rd.resolutionTime THEN "TooEarlyToResolve"
        ELSE "ok"

\* resolveRound's checks, in the code's order
ResolveError(roundId) ==
    LET rd == rounds[roundId]
    IN  IF rd.snapshotVol = 0 THEN "InvalidRound"
        ELSE IF rd.resolved THEN "RoundAlreadyResolved"
        ELSE IF now < rd.resolutionTime THEN "TooEarlyToResolve"
        ELSE "ok"


\* variant: HIGH wins on equality too
ResolvedOnEquality(rd, currentVol) ==
    [rd EXCEPT !.highVolWon = currentVol >= rd.snapshotVol,
               !.resolved = TRUE,
               !.resolvedVol = currentVol]

\* the round record after a successful resolveRound reading currentVol
Resolved(rd, currentVol) ==
    [rd EXCEPT !.highVolWon = currentVol > rd.snapshotVol,
               !.resolved = TRUE,
               !.resolvedVol = currentVol]

\* variant: resolveRound settles every round that is due, not roundId alone
ResolveRoundEveryDue(roundId, caller, currentVol) ==
    /\ ResolveError(roundId) = "ok"
    /\ rounds' = [r \in RoundIds |->
                    IF ResolveError(r) = "ok" THEN Resolved(rounds[r], currentVol)
                    ELSE rounds[r]]
    /\ UNCHANGED <<oracleVars, now, operator, currentRoundId, highVolBalance,
                   lowVolBalance, tradingDuration, resolutionDelay, seedAmount,
                   seedReserve, balance, paidOut, seedRecorded, claimCount,
                   buyCount, adminCount>>

\* currentVol is what oracle.getRealisedVol() returns
ResolveRound(roundId, caller, currentVol) ==
    /\ ResolveError(roundId) = "ok"
    /\ rounds' = [rounds EXCEPT ![roundId] = Resolved(rounds[roundId], currentVol)]
    /\ UNCHANGED <<oracleVars, now, operator, currentRoundId, highVolBalance,
                   lowVolBalance, tradingDuration, resolutionDelay, seedAmount,
                   seedReserve, balance, paidOut, seedRecorded, claimCount,
                   buyCount, adminCount>>

\* ------------------------------------------------------------- claimPayout
\* userTokens, totalWinning, seedWinning as claimPayout reads them
ClaimTokens(roundId, caller) ==
    IF rounds[roundId].highVolWon THEN highVolBalance[roundId][caller]
    ELSE lowVolBalance[roundId][caller]

ClaimTotalWinning(rd) ==
    IF rd.highVolWon THEN rd.totalHighTokens ELSE rd.totalLowTokens

ClaimSeedWinning(rd) ==
    IF rd.highVolWon THEN rd.seedHighTokens ELSE rd.seedLowTokens

\* userPool = round.totalCollateral - round.seedCollateral
ClaimUserPool(rd) == rd.totalCollateral - rd.seedCollateral

\* userWinning = totalWinning - seedWinning
ClaimUserWinning(rd) == ClaimTotalWinning(rd) - ClaimSeedWinning(rd)

\* variant: claimPayout without its check of userTokens
ClaimErrorNoTokenCheck(roundId, caller) ==
    LET rd == rounds[roundId]
        userTokens == ClaimTokens(roundId, caller)
    IN  IF ~rd.resolved THEN "RoundNotResolved"
        ELSE IF rd.totalCollateral < rd.seedCollateral THEN "Panic"
        ELSE IF ClaimTotalWinning(rd) < ClaimSeedWinning(rd) THEN "Panic"
        ELSE IF ClaimUserWinning(rd) = 0 THEN "InsufficientBalance"
        ELSE IF ~MulFits(userTokens, ClaimUserPool(rd)) THEN "Panic"
        ELSE "ok"

\* claimPayout's checks, in the code's order
ClaimError(roundId, caller) ==
    LET rd == rounds[roundId]
        userTokens == ClaimTokens(roundId, caller)
    IN  IF ~rd.resolved THEN "RoundNotResolved"
        ELSE IF userTokens = 0 THEN "InsufficientBalance"
        ELSE IF rd.totalCollateral < rd.seedCollateral THEN "Panic"
        ELSE IF ClaimTotalWinning(rd) < ClaimSeedWinning(rd) THEN "Panic"
        ELSE IF ClaimUserWinning(rd) = 0 THEN "InsufficientBalance"
        ELSE IF ~MulFits(userTokens, ClaimUserPool(rd)) THEN "Panic"
        ELSE "ok"

\* the payout of a claim that passes the checks
ClaimPayoutAmount(roundId, caller) ==
    LET rd == rounds[roundId]
        payout == (ClaimTokens(roundId, caller) * ClaimUserPool(rd))
                      \div ClaimUserWinning(rd)
    IN  IF payout > balance THEN balance ELSE payout


\* variant: the seed collateral is credited but not zeroed on the round
ClaimSeedReturnNotZeroed(rd, reserve) ==
    IF rd.seedCollateral > 0 THEN <<reserve + rd.seedCollateral, rd.seedCollateral>>
    ELSE <<reserve, rd.seedCollateral>>

\* the seed bookkeeping of a claim: <<seedReserve, round.seedCollateral>> afterwards
ClaimSeedReturn(rd, reserve) ==
    IF rd.seedCollateral > 0 THEN <<reserve + rd.seedCollateral, 0>>
    ELSE <<reserve, rd.seedCollateral>>

\* variant: claimPayout that pays without zeroing the claimant's balance
ClaimPayoutBalanceKept(roundId, caller) ==
    LET rd == rounds[roundId]
        payout == ClaimPayoutAmount(roundId, caller)
        seedReturn == ClaimSeedReturn(rd, seedReserve)
    IN  /\ ClaimError(roundId, caller) = "ok"
        /\ seedReserve' = seedReturn[1]
        /\ rounds' = [rounds EXCEPT ![roundId].seedCollateral = seedReturn[2]]
        /\ balance' = balance - payout
        /\ paidOut' = [paidOut EXCEPT ![roundId] = @ + payout]
        /\ claimCount' = [claimCount EXCEPT ![roundId] = @ + 1]
        /\ UNCHANGED <<oracleVars, now, operator, currentRoundId, tradingDuration,
                       resolutionDelay, seedAmount, seedRecorded, buyCount,
                       adminCount, highVolBalance, lowVolBalance>>

ClaimPayout(roundId, caller) ==
    LET rd == rounds[roundId]
        payout == ClaimPayoutAmount(roundId, caller)
        seedReturn == ClaimSeedReturn(rd, seedReserve)
    IN  /\ ClaimError(roundId, caller) = "ok"
        /\ highVolBalance' = IF rd.highVolWon
              THEN [highVolBalance EXCEPT ![roundId][caller] = 0]
              ELSE highVolBalance
        /\ lowVolBalance' = IF rd.highVolWon
              THEN lowVolBalance
              ELSE [lowVolBalance EXCEPT ![roundId][caller] = 0]
        /\ seedReserve' = seedReturn[1]
        /\ rounds' = [rounds EXCEPT ![roundId].seedCollateral = seedReturn[2]]
        /\ balance' = balance - payout
        /\ paidOut' = [paidOut EXCEPT ![roundId] = @ + payout]
        /\ claimCount' = [claimCount EXCEPT ![roundId] = @ + 1]
        /\ UNCHANGED <<oracleVars, now, operator, currentRoundId, tradingDuration,
                       resolutionDelay, seedAmount, seedRecorded, buyCount,
                       adminCount>>

\* what claimPayout reads and writes, as one record: a claim entered while
\* another claim is making its transfer sees the storage of that moment
Storage ==
    [highVolBalance |-> highVolBalance, lowVolBalance |-> lowVolBalance,
     rounds |-> rounds, seedReserve |-> seedReserve, balance |-> balance,
     paidOut |-> paidOut, claimCount |-> claimCount]

\* claimPayout's checks, in the code's order, on the storage st
ClaimErrorIn(st, roundId, caller) ==
    LET rd == st.rounds[roundId]
        userTokens == IF rd.highVolWon THEN st.highVolBalance[roundId][caller]
                      ELSE st.lowVolBalance[roundId][caller]
    IN  IF ~rd.resolved THEN "RoundNotResolved"
        ELSE IF userTokens = 0 THEN "InsufficientBalance"
        ELSE IF rd.totalCollateral < rd.seedCollateral THEN "Panic"
        ELSE IF ClaimTotalWinning(rd) < ClaimSeedWinning(rd) THEN "Panic"
        ELSE IF ClaimUserWinning(rd) = 0 THEN "InsufficientBalance"
        ELSE IF ~MulFits(userTokens, ClaimUserPool(rd)) THEN "Panic"
        ELSE "ok"

\* variant: the winning-side balance is still in place when the transfer is made
ClaimAtTransferBalanceKept(st, roundId, caller) ==
    LET rd == st.rounds[roundId]
        userTokens == IF rd.highVolWon THEN st.highVolBalance[roundId][caller]
                      ELSE st.lowVolBalance[roundId][caller]
        quotient == (userTokens * ClaimUserPool(rd)) \div ClaimUserWinning(rd)
        payout == IF quotient > st.balance THEN st.balance ELSE quotient
        seedReturn == ClaimSeedReturn(rd, st.seedReserve)
    IN  [st EXCEPT !.rounds[roundId].seedCollateral = seedReturn[2],
                   !.seedReserve = seedReturn[1],
                   !.balance = @ - payout,
                   !.paidOut[roundId] = @ + payout,
                   !.claimCount[roundId] = @ + 1]

\* the storage st once a claim that passed its checks makes its transfer: the
\* winning-side balance zeroed, the seed returned, the payout on its way out
ClaimAtTransfer(st, roundId, caller) ==
    LET rd == st.rounds[roundId]
        userTokens == IF rd.highVolWon THEN st.highVolBalance[roundId][caller]
                      ELSE st.lowVolBalance[roundId][caller]
        quotient == (userTokens * ClaimUserPool(rd)) \div ClaimUserWinning(rd)
        payout == IF quotient > st.balance THEN st.balance ELSE quotient
        seedReturn == ClaimSeedReturn(rd, st.seedReserve)
    IN  [st EXCEPT !.highVolBalance[roundId][caller] = IF rd.highVolWon THEN 0 ELSE @,
                   !.lowVolBalance[roundId][caller] = IF rd.highVolWon THEN @ ELSE 0,
                   !.rounds[roundId].seedCollateral = seedReturn[2],
                   !.seedReserve = seedReturn[1],
                   !.balance = @ - payout,
                   !.paidOut[roundId] = @ + payout,
                   !.claimCount[roundId] = @ + 1]

\* claimPayout whose recipient, on receiving the payout, calls claimPayout for
\* the same round again, ignores a revert of that call and accepts the payout
ClaimPayoutReentered(roundId, caller) ==
    LET outer == ClaimAtTransfer(Storage, roundId, caller)
        final == IF ClaimErrorIn(outer, roundId, caller) = "ok"
                 THEN ClaimAtTransfer(outer, roundId, caller)
                 ELSE outer
    IN  /\ ClaimError(roundId, caller) = "ok"
        /\ highVolBalance' = final.highVolBalance
        /\ lowVolBalance' = final.lowVolBalance
        /\ rounds' = final.rounds
        /\ seedReserve' = final.seedReserve
        /\ balance' = final.balance
        /\ paidOut' = final.paidOut
        /\ claimCount' = final.claimCount
        /\ UNCHANGED <<oracleVars, now, operator, currentRoundId, tradingDuration,
                       resolutionDelay, seedAmount, seedRecorded, buyCount,
                       adminCount>>

\* claimPayout whose recipient rejects the payout: TransferFailed reverts the
\* call, and with it every write the call had made
ClaimPayoutRejected(roundId, caller) ==
    /\ ClaimError(roundId, caller) = "ok"
    /\ UNCHANGED vars

\* -------------------------------------------------------------------- admin
\* variant: setTradingDuration that also moves the tradingEnd of the current round
SetTradingDurationRetroactive(caller, duration) ==
    /\ OnlyOperatorError(caller) = "ok"
    /\ duration # tradingDuration
    /\ tradingDuration' = duration
    /\ rounds' = [r \in RoundIds |->
                    IF r = currentRoundId
                    THEN [rounds[r] EXCEPT !.tradingEnd = @ - tradingDuration + duration]
                    ELSE rounds[r]]
    /\ adminCount' = adminCount + 1
    /\ UNCHANGED <<oracleVars, now, operator, currentRoundId,
                   highVolBalance, lowVolBalance, resolutionDelay, seedAmount,
                   seedReserve, balance, paidOut, seedRecorded, claimCount, buyCount>>

SetTradingDuration(caller, duration) ==
    /\ OnlyOperatorError(caller) = "ok"
    /\ duration # tradingDuration
    /\ tradingDuration' = duration
    /\ adminCount' = adminCount + 1
    /\ UNCHANGED <<oracleVars, now, operator, currentRoundId, rounds,
                   highVolBalance, lowVolBalance, resolutionDelay, seedAmount,
                   seedReserve, balance, paidOut, seedRecorded, claimCount, buyCount>>

SetResolutionDelay(caller, delay) ==
    /\ OnlyOperatorError(caller) = "ok"
    /\ delay # resolutionDelay
    /\ resolutionDelay' = delay
    /\ adminCount' = adminCount + 1
    /\ UNCHANGED <<oracleVars, now, operator, currentRoundId, rounds,
                   highVolBalance, lowVolBalance, tradingDuration, seedAmount,
                   seedReserve, balance, paidOut, seedRecorded, claimCount, buyCount>>

SetSeedAmount(caller, amount) ==
    /\ OnlyOperatorError(caller) = "ok"
    /\ amount # seedAmount
    /\ seedAmount' = amount
    /\ adminCount' = adminCount + 1
    /\ UNCHANGED <<oracleVars, now, operator, currentRoundId, rounds,
                   highVolBalance, lowVolBalance, tradingDuration, resolutionDelay,
                   seedReserve, balance, paidOut, seedRecorded, claimCount, buyCount>>

TransferOperator(caller, newOperator) ==
    /\ OnlyOperatorError(caller) = "ok"
    /\ newOperator # operator
    /\ operator' = newOperator
    /\ adminCount' = adminCount + 1
    /\ UNCHANGED <<oracleVars, now, currentRoundId, rounds, highVolBalance,
                   lowVolBalance, tradingDuration, resolutionDelay, seedAmount,
                   seedReserve, balance, paidOut, seedRecorded, claimCount, buyCount>>

\* depositSeedReserve with msg.value = value
DepositSeedReserve(caller, value) ==
    /\ OnlyOperatorError(caller) = "ok"
    /\ seedReserve' = seedReserve + value
    /\ balance' = balance + value
    /\ UNCHANGED <<oracleVars, now, operator, currentRoundId, rounds,
                   highVolBalance, lowVolBalance, tradingDuration, resolutionDelay,
                   seedAmount, paidOut, seedRecorded, claimCount, buyCount,
                   adminCount>>

\* variant: withdrawSeedReserve without its check of the amount
WithdrawErrorNoReserveCheck(caller, amount) ==
    IF OnlyOperatorError(caller) # "ok" THEN "Unauthorized"
    ELSE IF amount > balance THEN "TransferFailed"
    ELSE "ok"

\* withdrawSeedReserve(amount); the transfer fails when the contract holds less
WithdrawError(caller, amount) ==
    IF OnlyOperatorError(caller) # "ok" THEN "Unauthorized"
    ELSE IF amount > seedReserve THEN "InsufficientSeedReserve"
    ELSE IF amount > balance THEN "TransferFailed"
    ELSE "ok"

WithdrawSeedReserve(caller, amount) ==
    /\ WithdrawError(caller, amount) = "ok"
    /\ seedReserve' = seedReserve - amount
    /\ balance' = balance - amount
    /\ adminCount' = adminCount + 1
    /\ UNCHANGED <<oracleVars, now, operator, currentRoundId, rounds,
                   highVolBalance, lowVolBalance, tradingDuration, resolutionDelay,
                   seedAmount, paidOut, seedRecorded, claimCount, buyCount>>

\* ------------------------------------------------------------ RegimeOracle
\* the storage of the market
marketVars == <<operator, currentRoundId, rounds, highVolBalance,
                lowVolBalance, tradingDuration, resolutionDelay, seedAmount,
                seedReserve, balance, paidOut, seedRecorded, claimCount,
                buyCount, adminCount>>

\* variant: pushUpdate without its check of the probabilities
PushUpdateErrorNoProbCheck(caller, pHigh, pLow, modelHash) ==
    IF caller # oracleOperator THEN "Unauthorized"
    ELSE IF modelHash # registeredModelHash THEN "ModelMismatch"
    ELSE "ok"

\* pushUpdate's checks, in the code's order; "Panic" is the revert of the
\* checked sum
PushUpdateError(caller, pHigh, pLow, modelHash) ==
    IF caller # oracleOperator THEN "Unauthorized"
    ELSE IF modelHash # registeredModelHash THEN "ModelMismatch"
    ELSE IF ~AddFits(pHigh, pLow) THEN "Panic"
    ELSE IF pHigh + pLow > ONE + ProbTolerance THEN "InvalidProbabilities"
    ELSE "ok"

PushUpdate(caller, pHigh, pLow, entropy, modelHash) ==
    /\ PushUpdateError(caller, pHigh, pLow, modelHash) = "ok"
    /\ latestUpdate' = [pHighVol |-> pHigh, pLowVol |-> pLow, entropy |-> entropy,
                        timestamp |-> now, modelHash |-> modelHash]
    /\ updateCount' = updateCount + 1
    /\ UNCHANGED <<now, marketVars, oracleOperator, registeredModelHash>>

\* RegimeOracle.transferOperator
OracleTransferOperator(caller, newOperator) ==
    /\ caller = oracleOperator
    /\ newOperator # oracleOperator
    /\ oracleOperator' = newOperator
    /\ UNCHANGED <<now, marketVars, registeredModelHash, latestUpdate, updateCount>>

UpdateModelHash(caller, newHash) ==
    /\ caller = oracleOperator
    /\ newHash # registeredModelHash
    /\ registeredModelHash' = newHash
    /\ UNCHANGED <<now, marketVars, oracleOperator, latestUpdate, updateCount>>

\* -------------------------------------------------------------- environment
\* block.timestamp advances.  The contract reads it only to set and to compare
\* the deadlines of rounds, so while no opened round is unresolved a later
\* timestamp changes nothing any call can observe: those ticks are left out.
Tick ==
    /\ now < MaxTime
    /\ \E r \in RoundIds : r <= currentRoundId /\ ~rounds[r].resolved
    /\ now' = now + 1
    /\ UNCHANGED <<oracleVars, operator, currentRoundId, rounds, highVolBalance,
                   lowVolBalance, tradingDuration, resolutionDelay, seedAmount,
                   seedReserve, balance, paidOut, seedRecorded, claimCount,
                   buyCount, adminCount>>

\* ------------------------------------------------------------ specification
\* the calls every account can make, and the clock; at most buyLimit buys
Core(buyLimit) ==
    \/ \E caller \in Accounts, snap \in VolReadings : OpenNewRound(caller, snap)
    \/ \E caller \in Accounts, snap \in VolReadings : StartNewRound(caller, snap)
    \/ \E roundId \in RoundIds, caller \in Accounts, isHighVol \in BOOLEAN,
          amount \in BuyAmounts, value \in PaymentChoices, e \in EntropyReadings :
            /\ buyCount < buyLimit
            /\ BuyOutcome(roundId, caller, isHighVol, amount, value, e)
    \/ \E roundId \in RoundIds, caller \in Accounts, currentVol \in VolReadings :
            ResolveRound(roundId, caller, currentVol)
    \/ \E roundId \in RoundIds, caller \in Accounts : ClaimPayout(roundId, caller)
    \/ Tick

\* funding the reserve
Fund ==
    \E caller \in Accounts, v \in DepositChoices :
        /\ seedReserve + v <= ReserveCap
        /\ DepositSeedReserve(caller, v)

\* the other administrative calls; at most adminLimit of them
Admin(adminLimit) ==
    /\ adminCount < adminLimit
    /\ \/ \E caller \in Accounts, d \in DurationChoices : SetTradingDuration(caller, d)
       \/ \E caller \in Accounts, d \in DurationChoices : SetResolutionDelay(caller, d)
       \/ \E caller \in Accounts, a \in SeedChoices : SetSeedAmount(caller, a)
       \/ \E caller \in Accounts, n \in Accounts : TransferOperator(caller, n)
       \/ \E caller \in Accounts, a \in WithdrawChoices : WithdrawSeedReserve(caller, a)

\* every call of the contract, with one buy: the life cycle of rounds under
\* every administrative call
Next == Core(1) \/ Fund \/ Admin(MaxAdmin)

Spec == Init /\ [][Next]_vars

\* trading and claiming, with MaxBuys buys, on seeded and on unseeded rounds
NextTrade == Core(MaxBuys) \/ Fund

SpecTrade == Init /\ [][NextTrade]_vars

\* buyOutcome takes any uint256 amount: an amount above INT_MAX is one that
\* int256(amount) turns negative (here to -ONE)
WrapAmount == UINT_MAX + 1 - ONE

WideAmounts == {ONE, WrapAmount}

\* the accounts that buy in NextWide
Traders == {"alice", "bob"}

\* trading and claiming as in NextTrade, the buys with any amount of WideAmounts
NextWide ==
    \/ \E caller \in Accounts, snap \in VolReadings : OpenNewRound(caller, snap)
    \/ \E roundId \in RoundIds, caller \in Traders, isHighVol \in BOOLEAN,
          amount \in WideAmounts, value \in PaymentChoices, e \in EntropyReadings :
            /\ buyCount < MaxBuys
            /\ BuyOutcome(roundId, caller, isHighVol, amount, value, e)
    \/ \E roundId \in RoundIds, caller \in Accounts, currentVol \in VolReadings :
            ResolveRound(roundId, caller, currentVol)
    \/ \E roundId \in RoundIds, caller \in Accounts : ClaimPayout(roundId, caller)
    \/ Tick
    \/ Fund

SpecWide == Init /\ [][NextWide]_vars

\* amounts that take the quantities across the ranges of _expScaled: single
\* units, a fraction of b, b, more than 20 b, and an amount that int256(amount)
\* turns into -21 b
PricingAmounts == {1, 409, ONE, 21 * ONE, UINT_MAX + 1 - 21 * ONE}

\* msg.value above the total of any of these buys
PricingPayments == {25 * ONE}

\* opening rounds and buying with the amounts of PricingAmounts
NextPricing ==
    \/ \E caller \in Accounts, snap \in VolReadings : StartNewRound(caller, snap)
    \/ \E roundId \in RoundIds, isHighVol \in BOOLEAN, amount \in PricingAmounts,
          value \in PricingPayments, e \in EntropyReadings :
            /\ buyCount < MaxBuys
            /\ BuyOutcome(roundId, "alice", isHighVol, amount, value, e)
    \/ \E roundId \in RoundIds, caller \in Accounts, currentVol \in VolReadings :
            ResolveRound(roundId, caller, currentVol)
    \/ Tick
    \/ Fund

SpecPricing == Init /\ [][NextPricing]_vars

\* ------------------------------------------------------------------ claims
Opened(r) == r <= currentRoundId

\* the most recently opened round exists and is unresolved
LatestUnresolved == currentRoundId > 0 /\ ~rounds[currentRoundId].resolved

\* C1 (as claimed): for every resolved round the payouts made so far sum to at
\* most its userPool, totalCollateral minus the seed collateral recorded when
\* the round was seeded.
C1_PayoutsWithinUserPool ==
    \A r \in RoundIds :
        rounds[r].resolved =>
            paidOut[r] <= rounds[r].totalCollateral - seedRecorded[r]

\* C2 (as claimed): whenever a claim would succeed, first or later, it pays
\* floor(tokens * userPool / userWinningTokens) capped at the contract balance,
\* with userPool = totalCollateral - (the round's seed collateral) and
\* userWinningTokens = winning-side tokens - the seed's winning-side tokens.
C2_PayoutExcludesSeed ==
    \A r \in RoundIds, a \in Accounts :
        ClaimError(r, a) = "ok" =>
            ClaimPayoutAmount(r, a) =
                Min((ClaimTokens(r, a) * (rounds[r].totalCollateral - seedRecorded[r]))
                        \div (ClaimTotalWinning(rounds[r]) - ClaimSeedWinning(rounds[r])),
                    balance)

\* C3: over any sequence of claims on a round, the first successful claim adds
\* the seed collateral recorded for the round to the reserve and zeroes the
\* round's seedCollateral; every later successful claim on the round leaves the
\* reserve and the zeroed seedCollateral as they are.
C3_SeedReturnedOnce ==
    [][\A r \in RoundIds :
          claimCount'[r] = claimCount[r] + 1 =>
              /\ rounds'[r].seedCollateral = 0
              /\ seedReserve' = IF claimCount[r] = 0
                                THEN seedReserve + seedRecorded[r]
                                ELSE seedReserve]_vars

\* a seeded round on which two claims succeeded
C3_Witness ==
    \E r \in RoundIds : seedRecorded[r] > 0 /\ claimCount[r] >= 2

\* C4 (as claimed): while the most recently opened round is unresolved, no call
\* creates a round.
C4_NoOpenWhileUnresolved ==
    [][LatestUnresolved => currentRoundId' = currentRoundId]_vars

\* C4 (amended): while the most recently opened round is unresolved,
\* startNewRound fails with CurrentRoundNotResolved for every caller and no
\* startNewRound step is possible; openNewRound makes no such check (it fails
\* only for callers other than the operator).
C4_StartBlockedWhileUnresolved ==
    LatestUnresolved =>
        \A c \in Accounts :
            /\ StartNewRoundError(c) = "CurrentRoundNotResolved"
            /\ ~ENABLED (\E snap \in VolReadings : StartNewRound(c, snap))
            /\ OpenNewRoundError(c) = IF c = operator THEN "ok" ELSE "Unauthorized"

\* two rounds unresolved at once: the operator opened the second
C4_Witness ==
    /\ currentRoundId = 2
    /\ ~rounds[1].resolved /\ rounds[1].snapshotVol # 0
    /\ ~rounds[2].resolved

\* C5 (as claimed): while no round was ever opened, every way of opening the
\* first round fails with Unauthorized for a caller other than the operator.
C5_FirstRoundOperatorOnly ==
    currentRoundId = 0 =>
        \A c \in Accounts :
            c # operator =>
                /\ OpenNewRoundError(c) = "Unauthorized"
                /\ StartNewRoundError(c) = "Unauthorized"

\* C5 (amended): openNewRound by a caller other than the operator always
\* fails with Unauthorized and creates no round; startNewRound has no caller
\* restriction: while no round was ever opened, and again once the latest round
\* is resolved, it succeeds for every caller.
C5_StartOpenToAnyCaller ==
    \A c \in Accounts :
        /\ c # operator =>
              /\ OpenNewRoundError(c) = "Unauthorized"
              /\ ~ENABLED (\E snap \in VolReadings : OpenNewRound(c, snap))
        /\ (currentRoundId = 0 \/ rounds[currentRoundId].resolved) =>
              StartNewRoundError(c) = "ok"

\* the first round is resolved and a second round is open whose trading
\* window ends after the first round's resolution time
C5_Witness ==
    /\ currentRoundId = 2
    /\ rounds[1].resolved
    /\ rounds[2].tradingEnd > rounds[1].resolutionTime

\* C6 (as claimed): for every opened round, resolve fails with
\* TooEarlyToResolve at any time before resolutionTime and with
\* RoundAlreadyResolved once the round is resolved.
C6_ResolveErrors ==
    \A r \in RoundIds :
        Opened(r) =>
            /\ (~rounds[r].resolved /\ now < rounds[r].resolutionTime)
                  => ResolveError(r) = "TooEarlyToResolve"
            /\ rounds[r].resolved => ResolveError(r) = "RoundAlreadyResolved"

\* C7 (as claimed): every opened, unresolved round can be resolved by anyone
\* at any time from its resolutionTime on.
C7_ResolvableAfterDeadline ==
    \A r \in RoundIds :
        (Opened(r) /\ ~rounds[r].resolved /\ now >= rounds[r].resolutionTime)
            => /\ ResolveError(r) = "ok"
               /\ \A c \in Accounts :
                     ENABLED (\E v \in VolReadings : ResolveRound(r, c, v))

\* C8: a step that resolves a round is a resolveRound call that read some
\* value v from the oracle; it records v as resolvedVol and sets the outcome to
\* HIGH exactly when v is strictly greater than the round's snapshotVol.
C8_OutcomeFollowsReading ==
    [][\A r \in RoundIds :
          (~rounds[r].resolved /\ rounds'[r].resolved) =>
              \E v \in VolReadings :
                  /\ \E c \in Accounts : ResolveRound(r, c, v)
                  /\ rounds'[r].resolvedVol = v
                  /\ rounds'[r].highVolWon = (v > rounds[r].snapshotVol)]_vars

\* a round resolved LOW on a reading equal to its snapshot, and a round
\* resolved HIGH
C8_Witness ==
    \E r1, r2 \in RoundIds :
        /\ rounds[r1].resolved /\ rounds[r1].resolvedVol = rounds[r1].snapshotVol
        /\ ~rounds[r1].highVolWon
        /\ rounds[r2].resolved /\ rounds[r2].highVolWon

\* C9: once a round is resolved, no step changes its resolved flag, its
\* outcome, its resolvedVol or its snapshotVol.
C9_ResolvedImmutable ==
    [][\A r \in RoundIds :
          rounds[r].resolved =>
              /\ rounds'[r].resolved
              /\ rounds'[r].highVolWon = rounds[r].highVolWon
              /\ rounds'[r].resolvedVol = rounds[r].resolvedVol
              /\ rounds'[r].snapshotVol = rounds[r].snapshotVol]_vars

\* the first round is resolved and claimed from, and a later round was opened
\* and resolved after it
C9_Witness ==
    /\ rounds[1].resolved /\ claimCount[1] > 0
    /\ currentRoundId = 2 /\ rounds[2].resolved

\* the phase of an opened round at time t
Phase(rd, t) ==
    IF rd.resolved THEN "Resolved"
    ELSE IF t <= rd.tradingEnd THEN "Trading"
    ELSE "Pending"

\* C10 (as claimed): every opened round moves through its phases only in the
\* order Trading -> Pending -> Resolved, whatever durations the operator set.
C10_PhaseOrder ==
    [][\A r \in RoundIds :
          Opened(r) =>
              LET before == Phase(rounds[r], now)
                  after == Phase(rounds'[r], now')
              IN  \/ after = before
                  \/ before = "Trading" /\ after = "Pending"
                  \/ before = "Pending" /\ after = "Resolved"]_vars

\* C11 (as claimed): a buy succeeds only on an opened, unresolved round with
\* now <= tradingEnd; on a round id that was never opened it fails with
\* InvalidRound, on an opened unresolved round past its tradingEnd it fails
\* with TradingClosed, and on a resolved round it fails.
C11_BuyErrors ==
    \A r \in RoundIds, c \in Accounts, h \in BOOLEAN, a \in BuyAmounts,
       v \in PaymentChoices, e \in EntropyReadings :
        LET err == BuyError(r, c, h, a, v, e)
        IN  /\ err = "ok" =>
                  (Opened(r) /\ ~rounds[r].resolved /\ now <= rounds[r].tradingEnd)
            /\ ~Opened(r) => err = "InvalidRound"
            /\ (Opened(r) /\ ~rounds[r].resolved /\ now > rounds[r].tradingEnd)
                  => err = "TradingClosed"
            /\ rounds[r].resolved => err # "ok"

\* C12 (as claimed): a step that credits an account with `amount` units of a
\* side is a buy that raises the round's tokens and net quantity of that side
\* by exactly `amount`, raises totalCollateral and the contract's balance by
\* exactly total = rawCost + floor(rawCost * fee / ONE) with
\* rawCost = cost(after) - cost(before), and leaves the other side's
\* quantities and every position of the other side unchanged.
C12_BuyEffects ==
    [][\A r \in RoundIds, c \in Accounts :
          LET before == rounds[r]
              after == rounds'[r]
              amountH == highVolBalance'[r][c] - highVolBalance[r][c]
              amountL == lowVolBalance'[r][c] - lowVolBalance[r][c]
              total == after.totalCollateral - before.totalCollateral
              rawCost == Cost(after.qHigh, after.qLow)
                             - Cost(before.qHigh, before.qLow)
          IN  /\ amountH > 0 =>
                    /\ after.qHigh = before.qHigh + amountH
                    /\ after.totalHighTokens = before.totalHighTokens + amountH
                    /\ after.qLow = before.qLow
                    /\ after.totalLowTokens = before.totalLowTokens
                    /\ lowVolBalance' = lowVolBalance
                    /\ balance' = balance + total
                    /\ \E e \in EntropyReadings :
                          total = rawCost + (rawCost * DynamicFee(e)) \div ONE
              /\ amountL > 0 =>
                    /\ after.qLow = before.qLow + amountL
                    /\ after.totalLowTokens = before.totalLowTokens + amountL
                    /\ after.qHigh = before.qHigh
                    /\ after.totalHighTokens = before.totalHighTokens
                    /\ highVolBalance' = highVolBalance
                    /\ balance' = balance + total
                    /\ \E e \in EntropyReadings :
                          total = rawCost + (rawCost * DynamicFee(e)) \div ONE]_vars

\* C13: wherever a buy is accepted, a buy on an opened, unresolved round
\* inside its trading window whose payment is less than the total computed for
\* it fails with InsufficientPayment, and the accepted buy is not that one: no
\* step changes quantities, token totals, collateral or positions on behalf of
\* an underpaid buy.
C13_UnderpaidBuyRejected ==
    [][buyCount' = buyCount + 1 =>
          \A r \in RoundIds, c \in Accounts, h \in BOOLEAN, a \in BuyAmounts,
             v \in PaymentChoices, e \in EntropyReadings :
              (/\ Opened(r) /\ rounds[r].snapshotVol # 0
               /\ ~rounds[r].resolved /\ now <= rounds[r].tradingEnd
               /\ v < BuyQuote(rounds[r], h, a, e).totalCost)
                  => /\ BuyError(r, c, h, a, v, e) = "InsufficientPayment"
                     /\ ~BuyOutcome(r, c, h, a, v, e)]_vars

\* an underpaid buy is rejected on a round that already took a buy
C13_Witness ==
    \E r \in RoundIds, c \in Accounts, h \in BOOLEAN, a \in BuyAmounts,
       e \in EntropyReadings :
        /\ rounds[r].totalCollateral > rounds[r].seedCollateral
        /\ rounds[r].seedCollateral > 0
        /\ BuyError(r, c, h, a, 0, e) = "InsufficientPayment"

\* C14 (as claimed): no step lowers the net HIGH or the net LOW quantity of a
\* round, whatever uint256 amount a buy is called with.
C14_QuantitiesNeverDecrease ==
    [][\A r \in RoundIds :
          /\ rounds'[r].qHigh >= rounds[r].qHigh
          /\ rounds'[r].qLow >= rounds[r].qLow]_vars

\* C15 (as claimed): a buy whose amount does not fit the signed type of the
\* quantities is rejected, so no step credits a position with such an amount,
\* and no step credits a position without raising the round's collateral.
C15_NoWrappingBuy ==
    [][\A r \in RoundIds, c \in Accounts :
          LET amountH == highVolBalance'[r][c] - highVolBalance[r][c]
              amountL == lowVolBalance'[r][c] - lowVolBalance[r][c]
          IN  /\ amountH <= INT_MAX /\ amountL <= INT_MAX
              /\ (amountH > 0 \/ amountL > 0) =>
                    rounds'[r].totalCollateral > rounds[r].totalCollateral]_vars

\* C16: in every reachable state every round has totalHighTokens >=
\* seedHighTokens, totalLowTokens >= seedLowTokens and totalCollateral >=
\* seedCollateral, so the subtractions of claimPayout do not underflow.
C16_SeedWithinTotals ==
    \A r \in RoundIds :
        /\ rounds[r].totalHighTokens >= rounds[r].seedHighTokens
        /\ rounds[r].totalLowTokens >= rounds[r].seedLowTokens
        /\ rounds[r].totalCollateral >= rounds[r].seedCollateral

\* a seeded round that took a buy, resolved, with a claim on it still possible
C16_Witness ==
    \E r \in RoundIds, c \in Accounts :
        /\ rounds[r].seedCollateral > 0
        /\ rounds[r].totalCollateral > rounds[r].seedCollateral
        /\ ClaimError(r, c) = "ok"

\* C17: for every opened round that took no buy yet, seeded or not, priceHighVol
\* and priceLowVol are both exactly ONE / 2 and the seed's HIGH and LOW token
\* amounts are equal.
C17_EvenPricesAtOpen ==
    \A r \in RoundIds :
        (/\ Opened(r)
         /\ rounds[r].totalHighTokens = rounds[r].seedHighTokens
         /\ rounds[r].totalLowTokens = rounds[r].seedLowTokens)
            => /\ PriceHighVol(rounds[r].qHigh, rounds[r].qLow) = ONE \div 2
               /\ PriceLowVol(rounds[r].qHigh, rounds[r].qLow) = ONE \div 2
               /\ rounds[r].seedHighTokens = rounds[r].seedLowTokens

\* a seeded round and an unseeded round, both opened and without a buy
C17_Witness ==
    \E r1, r2 \in RoundIds :
        /\ Opened(r1) /\ Opened(r2)
        /\ rounds[r1].seedHighTokens > 0
        /\ rounds[r1].totalHighTokens = rounds[r1].seedHighTokens
        /\ rounds[r1].totalLowTokens = rounds[r1].seedLowTokens
        /\ rounds[r2].seedHighTokens = 0
        /\ rounds[r2].totalHighTokens = 0 /\ rounds[r2].totalLowTokens = 0

\* what seeding a fresh round costs at the current seedAmount
SeedCostAtOpen ==
    CostDelta(Cost(0, 0), Cost(seedAmount, 0))
        + CostDelta(Cost(seedAmount, 0), Cost(seedAmount, seedAmount))

\* C18: a step that opens a round while seeding it would cost more than the
\* reserve holds succeeds and leaves the new round with zero seed - net
\* quantities, token totals, totalCollateral and the three seed fields are 0 -
\* and the reserve unchanged; and wherever a step is taken, a fully paid buy
\* on an unseeded round without tokens that is open for trading is accepted.
C18_SkippedSeedLeavesRoundEmpty ==
    [][/\ (/\ currentRoundId' = currentRoundId + 1
           /\ seedAmount > 0
           /\ SeedCostAtOpen > seedReserve)
             => LET rd == rounds'[currentRoundId']
                IN  /\ rd.qHigh = 0 /\ rd.qLow = 0
                    /\ rd.totalHighTokens = 0 /\ rd.totalLowTokens = 0
                    /\ rd.totalCollateral = 0
                    /\ rd.seedCollateral = 0
                    /\ rd.seedHighTokens = 0 /\ rd.seedLowTokens = 0
                    /\ seedReserve' = seedReserve
       /\ \A r \in RoundIds :
             (/\ Opened(r) /\ rounds[r].snapshotVol # 0
              /\ seedRecorded[r] = 0 /\ rounds[r].totalCollateral = 0
              /\ ~rounds[r].resolved /\ now <= rounds[r].tradingEnd)
                => \A c \in Accounts, h \in BOOLEAN, e \in EntropyReadings :
                       BuyError(r, c, h, ONE, 3 * ONE, e) = "ok"]_vars

\* the first round was seeded, the second was opened while the reserve held
\* something but less than the seed costs, and then took a buy
C18_Witness ==
    /\ seedRecorded[1] > 0
    /\ currentRoundId = 2
    /\ rounds[2].seedHighTokens = 0
    /\ rounds[2].totalCollateral > 0
    /\ seedAmount > 0
    /\ seedReserve > 0 /\ seedReserve < SeedCostAtOpen

\* C19: for the quantities of every opened round, priceHighVol and priceLowVol
\* each lie in 0..ONE and their sum is ONE or ONE - 1.
C19_PricesSumToOne ==
    \A r \in RoundIds :
        Opened(r) =>
            LET pH == PriceHighVol(rounds[r].qHigh, rounds[r].qLow)
                pL == PriceLowVol(rounds[r].qHigh, rounds[r].qLow)
            IN  /\ 0 <= pH /\ pH <= ONE
                /\ 0 <= pL /\ pL <= ONE
                /\ pH + pL \in {ONE - 1, ONE}

\* a round with one quantity above the upper clamp of _expScaled and the other
\* below its lower clamp, whose prices sum to ONE - 1
C19_Witness ==
    \E r \in RoundIds :
        /\ rounds[r].qHigh > MAX_EXPONENT
        /\ rounds[r].qLow < -MAX_EXPONENT
        /\ PriceHighVol(rounds[r].qHigh, rounds[r].qLow)
              + PriceLowVol(rounds[r].qHigh, rounds[r].qLow) = ONE - 1

\* C20 (as claimed): _cost is non-decreasing in each argument: from the
\* quantities of every opened round, raising qHigh or qLow by any amount that
\* fits the signed type does not lower the cost.
C20_CostMonotone ==
    \A r \in RoundIds, a \in PricingAmounts :
        (Opened(r) /\ a <= INT_MAX) =>
            /\ Cost(rounds[r].qHigh + a, rounds[r].qLow)
                  >= Cost(rounds[r].qHigh, rounds[r].qLow)
            /\ Cost(rounds[r].qHigh, rounds[r].qLow + a)
                  >= Cost(rounds[r].qHigh, rounds[r].qLow)


\* ------------------------------------------------------------------ fee rate
\* entropy readings at the ends of the fee's range, inside it and past its cap
FeeReadings == {0, 1, MAX_ENTROPY \div 2, MAX_ENTROPY - 1, MAX_ENTROPY,
                2 * MAX_ENTROPY}

\* opening rounds and buying under each of the entropy readings of FeeReadings
NextFee ==
    \/ \E caller \in Accounts, snap \in VolReadings : StartNewRound(caller, snap)
    \/ \E roundId \in RoundIds, isHighVol \in BOOLEAN, amount \in BuyAmounts,
          value \in PaymentChoices, e \in FeeReadings :
            /\ buyCount < MaxBuys
            /\ BuyOutcome(roundId, "alice", isHighVol, amount, value, e)
    \/ \E roundId \in RoundIds, caller \in Accounts, currentVol \in VolReadings :
            ResolveRound(roundId, caller, currentVol)
    \/ Tick

SpecFee == Init /\ [][NextFee]_vars

C22_ClaimErrors ==
    \A r \in RoundIds, c \in Accounts :
        /\ ~rounds[r].resolved => ClaimError(r, c) = "RoundNotResolved"
        /\ (rounds[r].resolved /\ ClaimTokens(r, c) = 0) =>
              ClaimError(r, c) = "InsufficientBalance"
        /\ ClaimError(r, c) # "ok" => ~ENABLED ClaimPayout(r, c)

\* a resolved round that still records its seed, with a holder of the winning
\* side and an account without winning tokens but with tokens of the other
\* side, and a round that was never opened
C22_Witness ==
    \E r \in RoundIds, c1, c2 \in Accounts :
        /\ rounds[r].resolved
        /\ rounds[r].seedCollateral > 0
        /\ ClaimTokens(r, c1) = 0
        /\ highVolBalance[r][c1] + lowVolBalance[r][c1] > 0
        /\ ClaimTokens(r, c2) > 0
        /\ ClaimError(r, c2) = "ok"
        /\ \E r2 \in RoundIds : ~Opened(r2)

\* C23: after a successful claim the claiming account holds nothing in that
\* round: its balance of the high side and its balance of the low side are 0
C23_PositionZeroedOnClaim ==
    [][\A r \in RoundIds, c \in Accounts :
          (claimCount'[r] = claimCount[r] + 1 /\ ClaimPayout(r, c)) =>
              /\ highVolBalance'[r][c] = 0
              /\ lowVolBalance'[r][c] = 0
      ]_vars

\* ------------------------------------------------- claims and their recipient
\* trading and claiming, where the recipient of a payout may call back into
\* claimPayout or reject the payout
NextReentry ==
    \/ NextTrade
    \/ \E roundId \in RoundIds, caller \in Accounts :
            ClaimPayoutReentered(roundId, caller)
    \/ \E roundId \in RoundIds, caller \in Accounts :
            ClaimPayoutRejected(roundId, caller)

SpecReentry == Init /\ [][NextReentry]_vars

\* C24: claimPayout zeroes the balance and returns the seed before it makes the
\* transfer, so a claim for the same round entered from the recipient fails and
\* a step pays one payout and returns the seed once; a rejected payout leaves
\* every variable as it was
C24_NoSecondPayoutOnReentry ==
    [][\A r \in RoundIds :
          /\ claimCount'[r] <= claimCount[r] + 1
          /\ \A c \in Accounts :
                ((claimCount'[r] = claimCount[r] + 1) /\ ClaimPayoutReentered(r, c)) =>
                    /\ ClaimErrorIn(ClaimAtTransfer(Storage, r, c), r, c)
                          = "InsufficientBalance"
                    /\ paidOut'[r] = paidOut[r] + ClaimPayoutAmount(r, c)
                    /\ balance' = balance - ClaimPayoutAmount(r, c)
                    /\ seedReserve' = seedReserve + rounds[r].seedCollateral
                    /\ rounds'[r].seedCollateral = 0
      ]_vars

\* a seeded round after its first claim: the seed is back in the reserve, a
\* payout has left, and another account still holds tokens of the winning side
C24_Witness ==
    \E r \in RoundIds, c \in Accounts :
        /\ rounds[r].resolved
        /\ claimCount[r] = 1
        /\ seedRecorded[r] > 0
        /\ rounds[r].seedCollateral = 0
        /\ paidOut[r] > 0
        /\ ClaimTokens(r, c) > 0

\* C25: an administrative call by an account that is not the operator fails
\* with Unauthorized and is no step; transferOperator(n) by the operator makes
\* n the operator, and the operator before it, when it is another account, is
\* no longer authorized
C25_AdminOperatorOnly ==
    [][/\ \A c \in Accounts :
            c # operator =>
              /\ OnlyOperatorError(c) = "Unauthorized"
              /\ \A a \in WithdrawChoices : WithdrawError(c, a) = "Unauthorized"
              /\ \A d \in DurationChoices :
                    ~SetTradingDuration(c, d) /\ ~SetResolutionDelay(c, d)
              /\ \A a \in SeedChoices : ~SetSeedAmount(c, a)
              /\ \A n \in Accounts : ~TransferOperator(c, n)
              /\ \A v \in DepositChoices : ~DepositSeedReserve(c, v)
              /\ \A a \in WithdrawChoices : ~WithdrawSeedReserve(c, a)
       /\ \A n \in Accounts :
            TransferOperator(operator, n) =>
              /\ operator' = n
              /\ \A c \in Accounts : c # n => c # operator'
       /\ operator' # operator => \E n \in Accounts : TransferOperator(operator, n)
      ]_vars

\* the role has moved from the deployer to another account, which has since
\* funded the reserve and opened a round that was seeded from it
C25_Witness ==
    /\ operator # Deployer
    /\ adminCount = 1
    /\ balance > 0
    /\ currentRoundId > 0
    /\ seedRecorded[1] > 0

\* C26: rounds can overlap.  While the latest round is unresolved and past its
\* tradingEnd, openNewRound by the operator passes its checks, and the step
\* that opens the next round leaves the earlier one unresolved and gives the
\* new one a tradingEnd that has not passed
C26_OverlapByOperator ==
    [][(LatestUnresolved /\ now > rounds[currentRoundId].tradingEnd) =>
          /\ OpenNewRoundError(operator) = "ok"
          /\ currentRoundId' = currentRoundId + 1 =>
                /\ rounds'[currentRoundId] = rounds[currentRoundId]
                /\ ~rounds'[currentRoundId'].resolved
                /\ now' <= rounds'[currentRoundId'].tradingEnd
      ]_vars

\* round N unresolved past its tradingEnd while round N + 1 accepts buys
C26_Witness ==
    \E n \in RoundIds :
        /\ n + 1 \in RoundIds
        /\ Opened(n) /\ Opened(n + 1)
        /\ ~rounds[n].resolved
        /\ now > rounds[n].tradingEnd
        /\ rounds[n + 1].snapshotVol # 0
        /\ ~rounds[n + 1].resolved
        /\ now <= rounds[n + 1].tradingEnd

\* C27: a round opened at time t with the durations of that moment gets
\* tradingEnd = t + tradingDuration and resolutionTime = t + tradingDuration +
\* resolutionDelay, so its resolutionTime is never before its tradingEnd
C27_DeadlinesAtOpen ==
    [][currentRoundId' = currentRoundId + 1 =>
          LET rd == rounds'[currentRoundId']
          IN  /\ rd.tradingEnd = now + tradingDuration
              /\ rd.resolutionTime = now + tradingDuration + resolutionDelay
              /\ rd.resolutionTime >= rd.tradingEnd
      ]_vars

\* C28: round ids are allocated in order.  The counter never decreases; a step
\* that opens a round raises it by exactly 1 and writes the record of the new
\* id only; and the record of an opened round is never reset or replaced: it
\* stays opened with the snapshot and the deadlines it was opened with, and
\* once resolved keeps its outcome
C28_RoundIdsMonotone ==
    [][/\ currentRoundId' >= currentRoundId
       /\ currentRoundId' # currentRoundId =>
             /\ currentRoundId' = currentRoundId + 1
             /\ \A r \in RoundIds :
                   r # currentRoundId' =>
                       /\ rounds'[r] = rounds[r]
                       /\ highVolBalance'[r] = highVolBalance[r]
                       /\ lowVolBalance'[r] = lowVolBalance[r]
       /\ \A r \in RoundIds :
             Opened(r) =>
                 /\ r <= currentRoundId'
                 /\ rounds'[r].snapshotVol = rounds[r].snapshotVol
                 /\ rounds'[r].tradingEnd = rounds[r].tradingEnd
                 /\ rounds'[r].resolutionTime = rounds[r].resolutionTime
                 /\ rounds[r].resolved =>
                       /\ rounds'[r].resolved
                       /\ rounds'[r].highVolWon = rounds[r].highVolWon
                       /\ rounds'[r].resolvedVol = rounds[r].resolvedVol
      ]_vars

\* a second round opened at a later time than the first, which was bought in
\* and resolved
C28_Witness ==
    /\ currentRoundId = 2
    /\ rounds[1].resolved
    /\ rounds[1].totalHighTokens + rounds[1].totalLowTokens > 0
    /\ rounds[2].tradingEnd > rounds[1].tradingEnd
    /\ rounds[2].snapshotVol # rounds[1].snapshotVol

\* C29: rounds are independent.  A step that opens no round (a buy, a resolve
\* or a claim) changes the record and the positions of at most one round, and
\* beyond that round only seedReserve and the contract's balance
C29_RoundsIndependent ==
    [][currentRoundId' = currentRoundId =>
          /\ \A r1, r2 \in RoundIds :
                (/\ r1 # r2
                 /\ \/ rounds'[r1] # rounds[r1]
                    \/ highVolBalance'[r1] # highVolBalance[r1]
                    \/ lowVolBalance'[r1] # lowVolBalance[r1]) =>
                     /\ rounds'[r2] = rounds[r2]
                     /\ highVolBalance'[r2] = highVolBalance[r2]
                     /\ lowVolBalance'[r2] = lowVolBalance[r2]
          /\ rounds' # rounds =>
                UNCHANGED <<operator, tradingDuration, resolutionDelay, seedAmount>>
      ]_vars

\* two rounds with buyers, the first resolved and claimed from while the second
\* is unresolved and holds its collateral
C29_Witness ==
    /\ currentRoundId = 2
    /\ rounds[1].resolved /\ claimCount[1] > 0
    /\ ~rounds[2].resolved
    /\ rounds[2].totalCollateral > rounds[2].seedCollateral
    /\ \E c \in Accounts : highVolBalance[2][c] + lowVolBalance[2][c] > 0

\* C30: solvency.  The contract's balance covers seedReserve plus, over all
\* rounds, the seed collateral still recorded on the round and the collateral
\* users paid in that has not been paid out; in particular it covers seedReserve
C30_Solvent ==
    LET RECURSIVE Owed(_)
        Owed(r) ==
            IF r = 0 THEN 0
            ELSE LET userIn == rounds[r].totalCollateral - seedRecorded[r]
                     unpaid == IF userIn > paidOut[r] THEN userIn - paidOut[r] ELSE 0
                 IN  Owed(r - 1) + rounds[r].seedCollateral + unpaid
    IN  /\ balance >= seedReserve + Owed(MaxRounds)
        /\ balance >= seedReserve

\* C31: no account is paid twice for a round.  A successful claim leaves the
\* claimant without tokens of the winning side; an account without winning
\* tokens in a resolved round fails with InsufficientBalance, takes no claim
\* step, and never gets winning tokens of that round again
C31_NoSecondClaim ==
    [][\A r \in RoundIds, c \in Accounts :
          LET winning == IF rounds'[r].highVolWon THEN highVolBalance'[r][c]
                         ELSE lowVolBalance'[r][c]
          IN  /\ (claimCount'[r] = claimCount[r] + 1 /\ ClaimPayout(r, c)) =>
                    winning = 0
              /\ (rounds[r].resolved /\ ClaimTokens(r, c) = 0) =>
                    /\ ClaimError(r, c) = "InsufficientBalance"
                    /\ ~ClaimPayout(r, c)
                    /\ rounds'[r].resolved
                    /\ rounds'[r].highVolWon = rounds[r].highVolWon
                    /\ winning = 0
      ]_vars

\* a resolved round whose only holder of winning tokens has claimed
C31_Witness ==
    \E r \in RoundIds :
        /\ rounds[r].resolved
        /\ claimCount[r] = 1
        /\ paidOut[r] > 0
        /\ ClaimUserWinning(rounds[r]) > 0
        /\ \A c \in Accounts : ClaimTokens(r, c) = 0

\* C32: tokens are conserved.  For every round and side the balances of all
\* accounts sum to the side's total minus its seed tokens until the first claim
\* on the round, and to no more than that afterwards; so a claimant with a
\* winning balance finds userWinning non-zero
C32_TokensConserved ==
    LET RECURSIVE SumOf(_, _)
        SumOf(held, accounts) ==
            IF accounts = {} THEN 0
            ELSE LET a == CHOOSE x \in accounts : TRUE
                 IN  held[a] + SumOf(held, accounts \ {a})
    IN  \A r \in RoundIds :
            LET rd == rounds[r]
                heldHigh == SumOf(highVolBalance[r], Accounts)
                heldLow == SumOf(lowVolBalance[r], Accounts)
            IN  /\ heldHigh <= rd.totalHighTokens - rd.seedHighTokens
                /\ heldLow <= rd.totalLowTokens - rd.seedLowTokens
                /\ claimCount[r] = 0 =>
                      /\ heldHigh = rd.totalHighTokens - rd.seedHighTokens
                      /\ heldLow = rd.totalLowTokens - rd.seedLowTokens
                /\ \A c \in Accounts :
                      (rd.resolved /\ ClaimTokens(r, c) > 0) =>
                          ClaimUserWinning(rd) > 0

\* a seeded round with two holders of the winning side, one of whom has claimed
C32_Witness ==
    \E r \in RoundIds, c \in Accounts :
        /\ rounds[r].resolved
        /\ rounds[r].seedHighTokens > 0
        /\ claimCount[r] = 1
        /\ ClaimTokens(r, c) > 0
        /\ ClaimUserWinning(rounds[r]) > ClaimTokens(r, c)

\* C33: in every reachable state the net quantities of every round equal its
\* token totals: qHigh = totalHighTokens and qLow = totalLowTokens
C33_QuantitiesEqualTotals ==
    \A r \in RoundIds :
        /\ rounds[r].qHigh = rounds[r].totalHighTokens
        /\ rounds[r].qLow = rounds[r].totalLowTokens

\* ------------------------------------------------------------------- seeding
\* seed amounts: none, one unit, the default, b, and an amount that
\* int256(seedAmount) turns into -b
SeedAmounts == {0, 1, DefaultSeedAmount, ONE, WrapAmount}

\* opening rounds under each of the seed amounts of SeedAmounts, with the
\* reserve funded or not
NextSeed ==
    \/ \E caller \in Accounts, snap \in VolReadings : OpenNewRound(caller, snap)
    \/ \E caller \in Accounts, snap \in VolReadings : StartNewRound(caller, snap)
    \/ \E caller \in Accounts, a \in SeedAmounts :
            /\ adminCount < MaxAdmin
            /\ SetSeedAmount(caller, a)
    \/ \E roundId \in RoundIds, caller \in Accounts, currentVol \in VolReadings :
            ResolveRound(roundId, caller, currentVol)
    \/ Tick
    \/ Fund

SpecSeed == Init /\ [][NextSeed]_vars

\* C34: when opening a round seeds it, seedReserve drops by exactly the round's
\* seedCollateral, which is cost(seed, seed) - cost(0, 0) with no fee on it; the
\* round's totalCollateral equals seedCollateral, and its seed tokens, token
\* totals and net quantities of both sides are the configured seedAmount
C34_SeedBookkeeping ==
    [][(currentRoundId' = currentRoundId + 1
          /\ rounds'[currentRoundId'].seedHighTokens > 0) =>
          LET rd == rounds'[currentRoundId']
          IN  /\ seedReserve' = seedReserve - rd.seedCollateral
              /\ rd.totalCollateral = rd.seedCollateral
              /\ rd.seedHighTokens = seedAmount /\ rd.seedLowTokens = seedAmount
              /\ rd.totalHighTokens = seedAmount /\ rd.totalLowTokens = seedAmount
              /\ rd.qHigh = seedAmount /\ rd.qLow = seedAmount
              /\ rd.seedCollateral = Cost(rd.qHigh, rd.qLow) - Cost(0, 0)
      ]_vars

\* C35: once a round is resolved its net quantities, token totals and
\* totalCollateral never change again; and the step that resolves a round
\* changes only resolved, highVolWon and resolvedVol of that round: seedReserve,
\* seedCollateral, every position and the contract's balance stay as they were
C35_ResolvedRoundFrozen ==
    [][\A r \in RoundIds :
          /\ rounds[r].resolved =>
                /\ rounds'[r].qHigh = rounds[r].qHigh
                /\ rounds'[r].qLow = rounds[r].qLow
                /\ rounds'[r].totalHighTokens = rounds[r].totalHighTokens
                /\ rounds'[r].totalLowTokens = rounds[r].totalLowTokens
                /\ rounds'[r].totalCollateral = rounds[r].totalCollateral
          /\ (~rounds[r].resolved /\ rounds'[r].resolved) =>
                /\ rounds' = [rounds EXCEPT ![r] =
                      [@ EXCEPT !.resolved = TRUE,
                                !.highVolWon = rounds'[r].highVolWon,
                                !.resolvedVol = rounds'[r].resolvedVol]]
                /\ UNCHANGED <<seedReserve, balance, highVolBalance, lowVolBalance,
                               currentRoundId, operator, tradingDuration,
                               resolutionDelay, seedAmount>>
      ]_vars

\* a seeded round resolved while its trading window is still running and no
\* buy was made yet: a buy on it is attempted in vain
C35_Witness ==
    \E r \in RoundIds :
        /\ rounds[r].resolved
        /\ rounds[r].snapshotVol # 0
        /\ rounds[r].seedCollateral > 0
        /\ now <= rounds[r].tradingEnd
        /\ buyCount = 0

\* C36: the operator's withdrawal of more than seedReserve fails with
\* InsufficientSeedReserve and is no step; a withdrawal that succeeds lowers
\* seedReserve and the contract's balance by exactly its amount; a deposit
\* raises both by exactly the value sent; seedReserve is never negative
C36_ReserveAccounting ==
    [][/\ seedReserve >= 0 /\ seedReserve' >= 0
       /\ \A a \in WithdrawChoices :
             a > seedReserve =>
                 /\ WithdrawError(operator, a) = "InsufficientSeedReserve"
                 /\ \A c \in Accounts : ~WithdrawSeedReserve(c, a)
       /\ (adminCount' = adminCount + 1 /\ seedReserve' # seedReserve) =>
             \E a \in WithdrawChoices :
                 /\ a <= seedReserve
                 /\ seedReserve' = seedReserve - a
                 /\ balance' = balance - a
       /\ (seedReserve' > seedReserve /\ claimCount' = claimCount) =>
             \E v \in DepositChoices :
                 /\ seedReserve' = seedReserve + v
                 /\ balance' = balance + v
      ]_vars

\* after a deposit, a seeded round and a withdrawal: what is left in the
\* reserve is less than the amount withdrawn
C36_Witness ==
    \E a \in WithdrawChoices :
        /\ adminCount = 1
        /\ buyCount = 0
        /\ seedRecorded[1] > 0
        /\ seedReserve = 2 * ONE - seedRecorded[1] - a
        /\ balance = 2 * ONE - a

\* C37: a change of tradingDuration, resolutionDelay or seedAmount reaches only
\* the rounds opened after it.  The step that changes one of them leaves every
\* round record as it was, and a round opened later gets its deadlines and its
\* seed from the values of that moment
C37_SettingsNotRetroactive ==
    [][/\ (\/ tradingDuration' # tradingDuration
           \/ resolutionDelay' # resolutionDelay
           \/ seedAmount' # seedAmount) =>
                /\ rounds' = rounds
                /\ UNCHANGED <<currentRoundId, seedReserve, balance,
                               highVolBalance, lowVolBalance>>
       /\ currentRoundId' = currentRoundId + 1 =>
             LET rd == rounds'[currentRoundId']
             IN  /\ rd.tradingEnd = now + tradingDuration
                 /\ rd.resolutionTime = now + resolutionDelay
                 /\ rd.seedHighTokens \in {0, seedAmount}
                 /\ rd.seedLowTokens = rd.seedHighTokens
      ]_vars

\* the first round was opened under the default durations, the trading
\* duration was changed afterwards, and the second round was opened under the
\* new one
C37_Witness ==
    /\ currentRoundId = 2
    /\ adminCount = 1
    /\ tradingDuration # DefaultTradingDuration
    /\ rounds[1].resolutionTime - rounds[1].tradingEnd
          = DefaultResolutionDelay - DefaultTradingDuration
    /\ rounds[2].resolutionTime - rounds[2].tradingEnd
          = resolutionDelay - tradingDuration

\* -------------------------------------------------------------- RegimeOracle
\* the calls of RegimeOracle, with at most MaxUpdates accepted updates; the
\* market's operator opens rounds, which lets the clock advance
NextOracle ==
    \/ \E caller \in Accounts, pHigh \in ProbChoices, pLow \in ProbChoices,
          entropy \in EntropyReadings, modelHash \in ModelHashes :
            /\ updateCount < MaxUpdates
            /\ PushUpdate(caller, pHigh, pLow, entropy, modelHash)
    \/ \E caller \in Accounts, n \in Accounts : OracleTransferOperator(caller, n)
    \/ \E caller \in Accounts, h \in ModelHashes : UpdateModelHash(caller, h)
    \/ \E caller \in Accounts, snap \in VolReadings : OpenNewRound(caller, snap)
    \/ Tick

SpecOracle == Init /\ [][NextOracle]_vars

\* C38: pushUpdate by an account other than the oracle's operator, with a model
\* hash other than the registered one, or with pHigh + pLow above ONE plus the
\* tolerance is rejected and is no step; a step that changes latestUpdate or
\* updateCount is an accepted update: it stores the pushed values with the
\* current timestamp and raises updateCount by exactly 1
C38_PushUpdateChecked ==
    [][/\ \A c \in Accounts, pHigh \in ProbChoices, pLow \in ProbChoices,
             h \in ModelHashes :
               (\/ c # oracleOperator
                \/ h # registeredModelHash
                \/ pHigh + pLow > ONE + ProbTolerance) =>
                   /\ PushUpdateError(c, pHigh, pLow, h) # "ok"
                   /\ \A e \in EntropyReadings : ~PushUpdate(c, pHigh, pLow, e, h)
       /\ (latestUpdate' # latestUpdate \/ updateCount' # updateCount) =>
             /\ updateCount' = updateCount + 1
             /\ \E pHigh \in ProbChoices, pLow \in ProbChoices,
                   e \in EntropyReadings :
                     /\ pHigh + pLow <= ONE + ProbTolerance
                     /\ latestUpdate' =
                           [pHighVol |-> pHigh, pLowVol |-> pLow, entropy |-> e,
                            timestamp |-> now, modelHash |-> registeredModelHash]
      ]_vars

\* two updates were accepted, the later one at a later time, from an operator
\* other than the deployer, with probabilities that sum to ONE plus the tolerance
C38_Witness ==
    /\ updateCount = 2
    /\ oracleOperator # Deployer
    /\ latestUpdate.timestamp > 0
    /\ latestUpdate.pHighVol + latestUpdate.pLowVol = ONE + ProbTolerance

\* ---------------------------------------------------------------- _expScaled
\* liquidity parameters a market can be deployed with: one unit, less than ONE,
\* ONE, more than ONE
LiquidityChoices == {1, ONE \div 4, ONE, 3 * ONE}

\* C39: _expScaled returns at least 1 for every quantity, whatever positive b
\* the market was deployed with, so for the quantities of every round the
\* denominator expH + expL of the price queries is not zero, their product fits
\* the word, and priceHighVol and priceLowVol return a value
C39_ExpAtLeastOne ==
    \A r \in RoundIds :
        LET qH == rounds[r].qHigh
            qL == rounds[r].qLow
        IN  /\ ScaleFits(qH) /\ ScaleFits(qL)
            /\ ExpScaled(qH) >= 1 /\ ExpScaled(qL) >= 1
            /\ ExpScaled(qH) + ExpScaled(qL) > 0
            /\ ExpScaled(qH) + ExpScaled(qL) <= UINT_MAX
            /\ PriceHighVol(qH, qL) \in 0..ONE
            /\ PriceLowVol(qH, qL) \in 0..ONE
            /\ \A liquidity \in LiquidityChoices, q \in {qH, qL, -qH, -qL} :
                  ExpScaledFor(q, liquidity) >= 1

\* a round whose HIGH quantity lies below -20 b, where _expScaled returns 1 from
\* its clamp, and whose LOW quantity is positive
C39_Witness ==
    \E r \in RoundIds :
        /\ rounds[r].qHigh < -20 * b
        /\ rounds[r].qLow > 0
        /\ ExpScaled(rounds[r].qHigh) = 1
====
